---- MODULE Spec2Model ----
(***************************************************************************)
(* A model of src/app.py: the caption assembly (word mode for the MMS     *)
(* engine, segment mode for Whisper), the translation interceptor, the    *)
(* on-disk artifact cache and the render phase, the colour encoder and    *)
(* the overlay (video filter) builder.                                    *)
(*                                                                         *)
(* Conventions.  Text is a sequence of one-character strings.  Time is an *)
(* integer number of milliseconds (the code uses float seconds; 3.0 s is  *)
(* 3000).  Python's None is the value None == -1 for timestamps.          *)
(***************************************************************************)
EXTENDS Integers, Sequences, FiniteSets, TLC

VARIABLES
    \* ---- caption assembly (src/app.py 238-287, 313-317)
    selected_lang,   \* the sidebar's "Spoken Language"
    task,            \* the sidebar's "AI Task"
    result,          \* the engine's output: word chunks or segments
    pos,             \* the position of the for loop in the engine's output
    current_chunk,   \* the open cue of word mode
    srt_idx,         \* the next index of word mode
    srt_file,        \* the subtitle file: the cues written so far
    txt_file,        \* the transcript file: the lines written so far
    failed_calls,    \* the indices whose translation call raised
    apc,             \* where the assembly is: loop, done, unhandled
    \* ---- requests, cache and render (src/app.py 198-217, 224-233, 304-377)
    action_type,     \* st.session_state.action_type
    disk,            \* the artifacts under cache/ for the video's fingerprint
    run,             \* the number of the script run
    pc,              \* where the script run is
    saw,             \* what line 217 found on disk: subtitle file, transcript
    cache_hit,       \* the outcome of the check of line 217 in this run
    asr,             \* what the engine call of this run did
    ffmpeg_calls,    \* the runs in which the transcoder was invoked
    offered,         \* the files the download panel offered in this run
    \* ---- colour encoder (src/app.py 51-55)
    hex_code, opacity, packed,
    \* ---- overlay builder (src/app.py 324-346)
    is_pro, watermark_text, export_res, vf_string

asmVars == <<selected_lang, task, result, pos, current_chunk, srt_idx,
             srt_file, txt_file, failed_calls, apc>>
pipeVars == <<action_type, disk, run, pc, saw, cache_hit, asr, ffmpeg_calls, offered>>
colorVars == <<hex_code, opacity, packed>>
overlayVars == <<is_pro, watermark_text, export_res, vf_string>>
vars == <<asmVars, pipeVars, colorVars, overlayVars>>

-----------------------------------------------------------------------------
(* Bounds of the model *)

MaxTokens == 3
MaxRuns == 4
MaxWatermarkLen == 3

(* Program constants *)

MaxCueSpan == 3000
MsPerHour == 3600000
MsPerMinute == 60000
MsPerSecond == 1000
FullOpacity == 100
MaxAlpha == 255

None == -1
Times == {0, 1500, 4500}
Words == {<<"a">>, <<" ">>}

AKAN == "Akan (Twi)"
AUTO == "Auto-Detect"
TRANSCRIBE == "Transcribe (Original Language)"
TRANSLATE == "Translate to English"

-----------------------------------------------------------------------------
(* Text helpers *)

RECURSIVE LStrip(_)
LStrip(s) == IF s # <<>> /\ Head(s) = " " THEN LStrip(Tail(s)) ELSE s

RECURSIVE RStrip(_)
RStrip(s) ==
    IF s # <<>> /\ s[Len(s)] = " " THEN RStrip(SubSeq(s, 1, Len(s) - 1)) ELSE s

\* str.strip()
Strip(s) == RStrip(LStrip(s))

\* format_timestamp: None is 0.0; hours, minutes, seconds and the
\* milliseconds left, each truncated
format_timestamp(seconds) ==
    LET ms == IF seconds = None THEN 0 ELSE seconds
    IN  <<ms \div MsPerHour,
          (ms % MsPerHour) \div MsPerMinute,
          (ms % MsPerMinute) \div MsPerSecond,
          ms % MsPerSecond>>

\* GoogleTranslator(source='auto', target='en').translate(text): an external
\* function of the text; here it marks the text as translated
Translated(text) == <<"E", "N", ":">> \o text

-----------------------------------------------------------------------------
(* Caption assembly *)

\* the bare "except:" of lines 268 and 283 catches every exception
BareExceptCatches(exc) == TRUE

\* a variant of Intercept: the failed call leaves no text
InterceptLosesText(final_text, tsk, call_fails) ==
    IF tsk = TRANSLATE /\ final_text # <<>>
    THEN IF call_fails
         THEN [text |-> <<>>, escaped |-> FALSE]
         ELSE [text |-> Translated(final_text), escaped |-> FALSE]
    ELSE [text |-> final_text, escaped |-> FALSE]

\* lines 265-269 and 280-284: the text to write for a cue, and whether the
\* exception of a failed call escapes the try statement
Intercept(final_text, tsk, call_fails) ==
    IF tsk = TRANSLATE /\ final_text # <<>>
    THEN IF call_fails
         THEN [text |-> final_text,
               escaped |-> ~BareExceptCatches("Exception")]
         ELSE [text |-> Translated(final_text), escaped |-> FALSE]
    ELSE [text |-> final_text, escaped |-> FALSE]

\* the translator is called for this text
TranslatorCalled(final_text, tsk) == tsk = TRANSLATE /\ final_text # <<>>

\* lines 271-272 and 286-287: one cue to both files
WriteCue(st, final_text) ==
    [st EXCEPT
        !.srt_file = Append(@, [index |-> st.srt_idx,
                                start |-> format_timestamp(st.current_chunk.start),
                                end |-> format_timestamp(st.current_chunk.end),
                                text |-> final_text]),
        !.txt_file = Append(@, final_text)]

\* a variant of SkipsToken: only a missing start skips the token
SkipsOnStartOnly(word_data) == word_data.timestamp[1] = None

\* line 249
SkipsToken(word_data) ==
    word_data.timestamp[1] = None \/ word_data.timestamp[2] = None

\* a variant of FitsOpenCue: the span is measured from the previous token
FitsFromPreviousEnd(chunk, end) == (end - chunk.end) <= MaxCueSpan

\* line 257
FitsOpenCue(chunk, end) == (end - chunk.start) <= MaxCueSpan

\* the token closes the open cue (the else branch of line 261)
ClosesCue(chunk, word_data) ==
    /\ ~SkipsToken(word_data)
    /\ chunk.start # None
    /\ ~FitsOpenCue(chunk, word_data.timestamp[2])

\* a variant of NextIdx: the index is not advanced
SameIdx(idx) == idx

\* the next value of srt_idx after the cue was written (line 273)
NextIdx(idx) == idx + 1

\* lines 244-274: one iteration of the loop over the word chunks
WordBody(st, word_data, tsk, call_fails) ==
    LET word == word_data.text
        start == word_data.timestamp[1]
        end == word_data.timestamp[2]
    IN  IF SkipsToken(word_data) THEN st
        ELSE IF st.current_chunk.start = None
        THEN [st EXCEPT !.current_chunk =
                 [start |-> start, end |-> end, text |-> word]]
        ELSE IF FitsOpenCue(st.current_chunk, end)
        THEN [st EXCEPT !.current_chunk =
                 [start |-> @.start, end |-> end,
                  text |-> Strip(@.text \o <<" ">> \o word)]]
        ELSE LET got == Intercept(Strip(st.current_chunk.text), tsk, call_fails)
             IN  IF got.escaped THEN [st EXCEPT !.escaped = TRUE]
                 ELSE [WriteCue(st, got.text) EXCEPT
                          !.srt_idx = NextIdx(@),
                          !.current_chunk =
                              [start |-> start, end |-> end, text |-> word]]

\* lines 276-287: the cue still open after the loop
WordFinal(st, tsk, call_fails) ==
    IF st.current_chunk.start # None
    THEN LET got == Intercept(Strip(st.current_chunk.text), tsk, call_fails)
         IN  IF got.escaped THEN [st EXCEPT !.escaped = TRUE]
             ELSE WriteCue(st, got.text)
    ELSE st

\* lines 314-317: one iteration of the loop over the segments
SegmentBody(st, i, segment) ==
    LET text == Strip(segment.text)
    IN  [st EXCEPT
            !.srt_file = Append(@, [index |-> i,
                                    start |-> format_timestamp(segment.start),
                                    end |-> format_timestamp(segment.end),
                                    text |-> text]),
            !.txt_file = Append(@, text)]

\* lines 241-242
EmptyChunk == [text |-> <<>>, start |-> None, end |-> None]

AsmState ==
    [current_chunk |-> current_chunk, srt_idx |-> srt_idx,
     srt_file |-> srt_file, txt_file |-> txt_file, escaped |-> FALSE]

StartState ==
    [current_chunk |-> EmptyChunk, srt_idx |-> 1,
     srt_file |-> <<>>, txt_file |-> <<>>, escaped |-> FALSE]

\* the engine's outputs the model draws from
\* word timestamps: an interval, or a pair with a bound the engine could not
\* align (a chunk without the key reads as (None, None), line 246)
Stamps == {p \in Times \X Times : p[1] <= p[2]}
NullStamps == {<<None, None>>, <<None, 1500>>, <<1500, None>>}

WordChunk ==
    {[text |-> w, timestamp |-> ts] : w \in Words, ts \in Stamps}
        \cup {[text |-> <<"a">>, timestamp |-> ts] : ts \in NullStamps}

Segment ==
    {[text |-> w, start |-> p[1], end |-> p[2]] :
        w \in Words, p \in {q \in Times \X Times : q[1] <= q[2]}}

SeqsUpTo(S, n) == UNION {[1..k -> S] : k \in 0..n}

AsmIdle ==
    /\ selected_lang = AUTO /\ task = TRANSCRIBE /\ result = <<>> /\ pos = 1
    /\ current_chunk = EmptyChunk /\ srt_idx = 1 /\ srt_file = <<>>
    /\ txt_file = <<>> /\ failed_calls = {} /\ apc = "off"

\* an artifact of the cache: whether the file exists, what it holds
\* (complete, degraded: written from a failed transcription, partial: opened
\* or cut short) and the script run that wrote it
Absent == [exists |-> FALSE, content |-> "none", by |-> 0]
File(content, by) == [exists |-> TRUE, content |-> content, by |-> by]

\* lines 24-27 and 92-94: an empty cache folder
EmptyCache == [f \in {"srt", "txt", "video", "mp3"} |-> Absent]

NothingSeen == [srt |-> FALSE, txt |-> FALSE]

PipeIdle ==
    /\ action_type = "None" /\ disk = EmptyCache /\ run = 0 /\ pc = "off"
    /\ saw = NothingSeen /\ cache_hit = FALSE /\ asr = "none"
    /\ ffmpeg_calls = {} /\ offered = {}

ColorIdle == hex_code = <<>> /\ opacity = 0 /\ packed = <<>>

OverlayIdle ==
    is_pro = FALSE /\ watermark_text = <<>> /\ export_res = "off" /\ vf_string = <<>>

\* the with statement of line 238 / 313 is entered: the loop starts
InitAssembly ==
    /\ selected_lang \in {AKAN, AUTO}
    /\ task \in {TRANSCRIBE, TRANSLATE}
    /\ result \in IF selected_lang = AKAN
                  THEN SeqsUpTo(WordChunk, MaxTokens)
                  ELSE SeqsUpTo(Segment, MaxTokens)
    /\ pos = 1
    /\ current_chunk = EmptyChunk
    /\ srt_idx = 1
    /\ srt_file = <<>>
    /\ txt_file = <<>>
    /\ failed_calls = {}
    /\ apc = "loop"
    /\ PipeIdle /\ ColorIdle /\ OverlayIdle

Install(st) ==
    /\ current_chunk' = st.current_chunk
    /\ srt_idx' = st.srt_idx
    /\ srt_file' = st.srt_file
    /\ txt_file' = st.txt_file

WordLoop ==
    /\ apc = "loop" /\ selected_lang = AKAN /\ pos <= Len(result)
    /\ \E call_fails \in BOOLEAN :
         LET st == WordBody(AsmState, result[pos], task, call_fails)
             called == /\ ClosesCue(current_chunk, result[pos])
                       /\ TranslatorCalled(Strip(current_chunk.text), task)
         IN  /\ Install(st)
             /\ failed_calls' = IF called /\ call_fails
                                THEN failed_calls \cup {srt_idx}
                                ELSE failed_calls
             /\ apc' = IF st.escaped THEN "unhandled" ELSE "loop"
             /\ pos' = IF st.escaped THEN pos ELSE pos + 1
    /\ UNCHANGED <<selected_lang, task, result>>
    /\ UNCHANGED <<pipeVars, colorVars, overlayVars>>

WordEnd ==
    /\ apc = "loop" /\ selected_lang = AKAN /\ pos > Len(result)
    /\ \E call_fails \in BOOLEAN :
         LET st == WordFinal(AsmState, task, call_fails)
             called == /\ current_chunk.start # None
                       /\ TranslatorCalled(Strip(current_chunk.text), task)
         IN  /\ Install(st)
             /\ failed_calls' = IF called /\ call_fails
                                THEN failed_calls \cup {srt_idx}
                                ELSE failed_calls
             /\ apc' = IF st.escaped THEN "unhandled" ELSE "done"
    /\ UNCHANGED <<selected_lang, task, result, pos>>
    /\ UNCHANGED <<pipeVars, colorVars, overlayVars>>

SegmentLoop ==
    /\ apc = "loop" /\ selected_lang # AKAN /\ pos <= Len(result)
    /\ Install(SegmentBody(AsmState, pos, result[pos]))
    /\ pos' = pos + 1
    /\ UNCHANGED <<selected_lang, task, result, failed_calls, apc>>
    /\ UNCHANGED <<pipeVars, colorVars, overlayVars>>

SegmentEnd ==
    /\ apc = "loop" /\ selected_lang # AKAN /\ pos > Len(result)
    /\ apc' = "done"
    /\ UNCHANGED <<selected_lang, task, result, pos, current_chunk, srt_idx,
                   srt_file, txt_file, failed_calls>>
    /\ UNCHANGED <<pipeVars, colorVars, overlayVars>>

\* lines 241-287 as a function of the word chunks: the cues and lines written,
\* the translation call failing for the indices in fails
RECURSIVE FoldWords(_, _, _, _)
FoldWords(chunks_data, st, tsk, fails) ==
    IF chunks_data = <<>>
    THEN WordFinal(st, tsk, st.srt_idx \in fails)
    ELSE FoldWords(Tail(chunks_data),
                   WordBody(st, Head(chunks_data), tsk, st.srt_idx \in fails),
                   tsk, fails)

RunWords(chunks_data, tsk, fails) == FoldWords(chunks_data, StartState, tsk, fails)

NextAssembly == WordLoop \/ WordEnd \/ SegmentLoop \/ SegmentEnd

SpecAssembly == InitAssembly /\ [][NextAssembly]_vars

-----------------------------------------------------------------------------
(* Requests, the artifact cache and the render phase.  One script run is   *)
(* the steps block, transcribe, open, write, render, panel; an exception   *)
(* nothing catches ends the run at "unhandled".                            *)

InitPipeline ==
    /\ selected_lang \in {AKAN, AUTO}
    /\ task = TRANSCRIBE /\ result = <<>> /\ pos = 1
    /\ current_chunk = EmptyChunk /\ srt_idx = 1 /\ srt_file = <<>>
    /\ txt_file = <<>> /\ failed_calls = {} /\ apc = "off"
    /\ action_type = "None"
    /\ disk = EmptyCache
    /\ run = 0
    /\ pc = "idle"
    /\ saw = NothingSeen
    /\ cache_hit = FALSE
    /\ asr = "none"
    /\ ffmpeg_calls = {}
    /\ offered = {}
    /\ ColorIdle /\ OverlayIdle

Others == <<asmVars, colorVars, overlayVars>>

\* a script run starts: its locals are fresh
StartRun ==
    /\ run' = run + 1
    /\ pc' = "block"
    /\ saw' = NothingSeen
    /\ cache_hit' = FALSE
    /\ asr' = "none"
    /\ offered' = {}

\* lines 198-201: one of the four buttons
Click(a) ==
    /\ pc = "idle" /\ run < MaxRuns
    /\ action_type' = a
    /\ StartRun
    /\ UNCHANGED <<disk, ffmpeg_calls, Others>>

\* lines 91-95: "Clear Server Cache"; the run goes on with the action kept
\* in the session state
ClearCache ==
    /\ pc = "idle" /\ run < MaxRuns
    /\ disk' = EmptyCache
    /\ StartRun
    /\ UNCHANGED <<action_type, ffmpeg_calls, Others>>

\* lines 380-382: "Close & Clear Results"
CloseResults ==
    /\ pc = "idle" /\ action_type # "None"
    /\ action_type' = "None"
    /\ UNCHANGED <<disk, run, pc, saw, cache_hit, asr, ffmpeg_calls, offered, Others>>

\* lines 204-214: the audio is extracted when it is not cached; ffmpeg.Error
\* is caught
ExtractMp3 ==
    /\ pc = "block" /\ action_type = "mp3"
    /\ IF ~disk.mp3.exists
       THEN \E outcome \in {"ok", "failed", "failed_partial"} :
               disk' = [disk EXCEPT !.mp3 =
                           CASE outcome = "ok" -> File("complete", run)
                             [] outcome = "failed" -> Absent
                             [] OTHER -> File("partial", run)]
       ELSE disk' = disk
    /\ pc' = "panel"
    /\ UNCHANGED <<action_type, run, saw, cache_hit, asr, ffmpeg_calls, offered, Others>>

\* a variant of SkipsPipeline: the subtitle file alone decides
SkipsOnSrtAlone(srt_exists, txt_exists) == srt_exists

\* line 217: the pipeline is skipped
SkipsPipeline(srt_exists, txt_exists) == srt_exists /\ txt_exists

\* lines 216-217
CacheCheck ==
    /\ pc = "block" /\ action_type \in {"srt", "txt", "burn"}
    /\ saw' = [srt |-> disk.srt.exists, txt |-> disk.txt.exists]
    /\ cache_hit' = SkipsPipeline(disk.srt.exists, disk.txt.exists)
    /\ pc' = IF cache_hit' THEN "render" ELSE "transcribe"
    /\ UNCHANGED <<action_type, disk, run, asr, ffmpeg_calls, offered, Others>>

\* lines 204, 216, 358: no action is selected
NoAction ==
    /\ pc = "block" /\ action_type = "None"
    /\ pc' = "idle"
    /\ UNCHANGED <<action_type, disk, run, saw, cache_hit, asr, ffmpeg_calls, offered, Others>>

\* line 306: "except RuntimeError"
CatchesRuntimeError(exc) == exc = "RuntimeError"

\* lines 224-233: no try statement around the MMS pipeline call
MmsCallCaught(exc) == FALSE

\* lines 229-233 and 304-308: the engine call; it returns, or raises
Transcribe ==
    /\ pc = "transcribe"
    /\ \E outcome \in {"ok", "RuntimeError", "OtherError"} :
         LET caught == IF selected_lang = AKAN
                       THEN MmsCallCaught(outcome)
                       ELSE CatchesRuntimeError(outcome)
         IN  /\ asr' = IF outcome = "ok" THEN "ok" ELSE "failed"
             /\ pc' = IF outcome = "ok" \/ caught THEN "open" ELSE "unhandled"
    /\ UNCHANGED <<action_type, disk, run, saw, cache_hit, ffmpeg_calls, offered, Others>>

\* lines 238 and 313: both files are opened for writing, the subtitle file
\* first; an open that fails raises
OpenFiles ==
    /\ pc = "open"
    /\ \E outcome \in {"ok", "srt_fails", "txt_fails"} :
         /\ disk' = CASE outcome = "ok" ->
                           [disk EXCEPT !.srt = File("partial", run),
                                        !.txt = File("partial", run)]
                      [] outcome = "txt_fails" ->
                           [disk EXCEPT !.srt = File("partial", run)]
                      [] OTHER -> disk
         /\ pc' = IF outcome = "ok" THEN "write" ELSE "unhandled"
    /\ UNCHANGED <<action_type, run, saw, cache_hit, asr, ffmpeg_calls, offered, Others>>

\* lines 239-287 and 314-317: the cues are written; an error in the loop
\* (there is none to catch it) leaves both files cut short.  After a caught
\* engine failure the result is {"segments": []} and nothing is written.
WriteCues ==
    /\ pc = "write"
    /\ \E interrupted \in {FALSE, asr = "ok"} :
         LET content == IF interrupted THEN "partial"
                        ELSE IF asr = "ok" THEN "complete" ELSE "degraded"
         IN  /\ disk' = [disk EXCEPT !.srt = File(content, run),
                                     !.txt = File(content, run)]
             /\ pc' = IF interrupted THEN "unhandled" ELSE "render"
    /\ UNCHANGED <<action_type, run, saw, cache_hit, asr, ffmpeg_calls, offered, Others>>

\* line 322: the transcoder is invoked
InvokesTranscoder(a, video_exists) == a = "burn" /\ ~video_exists

\* lines 322-355: the render phase; ffmpeg.Error is caught, and what the
\* transcoder wrote before it failed stays on disk
Render ==
    /\ pc = "render"
    /\ IF InvokesTranscoder(action_type, disk.video.exists)
       THEN /\ ffmpeg_calls' = ffmpeg_calls \cup {run}
            /\ \E outcome \in {"ok", "failed", "failed_partial"} :
                  disk' = [disk EXCEPT !.video =
                              CASE outcome = "ok" -> File("complete", run)
                                [] outcome = "failed" -> Absent
                                [] OTHER -> File("partial", run)]
       ELSE UNCHANGED <<disk, ffmpeg_calls>>
    /\ pc' = "panel"
    /\ UNCHANGED <<action_type, run, saw, cache_hit, asr, offered, Others>>

\* lines 364-377: the downloads offered for the action
Offers(a, d) ==
    IF a = "mp3" THEN {f \in {"mp3"} : d[f].exists}
    ELSE IF a \in {"srt", "txt", "burn"}
    THEN {f \in {"srt", "txt"} : d[f].exists}
            \cup {f \in {"video"} : a = "burn" /\ d[f].exists}
    ELSE {}

\* lines 358-377: the download panel
Panel ==
    /\ pc = "panel"
    /\ offered' = Offers(action_type, disk)
    /\ pc' = "idle"
    /\ UNCHANGED <<action_type, disk, run, saw, cache_hit, asr, ffmpeg_calls, Others>>

\* an exception no handler of the script catches ends the script run
RunAborted ==
    /\ pc = "unhandled"
    /\ pc' = "idle"
    /\ UNCHANGED <<action_type, disk, run, saw, cache_hit, asr, ffmpeg_calls, offered, Others>>

NextPipeline ==
    \/ \E a \in {"srt", "txt", "mp3", "burn"} : Click(a)
    \/ ClearCache
    \/ CloseResults
    \/ ExtractMp3
    \/ CacheCheck
    \/ NoAction
    \/ Transcribe
    \/ OpenFiles
    \/ WriteCues
    \/ Render
    \/ Panel
    \/ RunAborted

SpecPipeline == InitPipeline /\ [][NextPipeline]_vars

-----------------------------------------------------------------------------
(* The colour encoder *)

HexDigits ==
    <<"0", "1", "2", "3", "4", "5", "6", "7", "8", "9", "a", "b", "c", "d", "e", "f">>

\* hex(n)[2:]: the digits of n in base 16, lower case, no leading zero
RECURSIVE HexOf(_)
HexOf(n) ==
    IF n < 16 THEN <<HexDigits[n + 1]>>
    ELSE HexOf(n \div 16) \o <<HexDigits[(n % 16) + 1]>>

\* str.zfill(width)
RECURSIVE ZFill(_, _)
ZFill(s, width) == IF Len(s) >= width THEN s ELSE ZFill(<<"0">> \o s, width)

UpperOf(c) ==
    CASE c = "a" -> "A" [] c = "b" -> "B" [] c = "c" -> "C"
      [] c = "d" -> "D" [] c = "e" -> "E" [] c = "f" -> "F" [] OTHER -> c

\* str.upper()
Upper(s) == [i \in DOMAIN s |-> UpperOf(s[i])]

\* str.lstrip('#')
RECURSIVE LStripHash(_)
LStripHash(s) == IF s # <<>> /\ Head(s) = "#" THEN LStripHash(Tail(s)) ELSE s

\* a variant of AlphaValue: the opacity itself, not its complement
AlphaNotInverted(o) == (o * MaxAlpha) \div FullOpacity

\* line 54: int(255 - (opacity / 100 * 255)); int() drops the fraction.  For
\* the integers 0..100 the float result equals the exact one.
AlphaValue(o) == (MaxAlpha * FullOpacity - o * MaxAlpha) \div FullOpacity

\* lines 51-55
hex_to_ass(code, o) ==
    LET h == LStripHash(code)
        r == SubSeq(h, 1, 2)
        g == SubSeq(h, 3, 4)
        b == SubSeq(h, 5, 6)
        alpha == Upper(ZFill(HexOf(AlphaValue(o)), 2))
    IN  <<"&", "H">> \o alpha \o b \o g \o r

\* colours of the colour pickers the model draws from
Colours ==
    {<<"#", "F", "F", "0", "0", "0", "0">>,
     <<"0", "0", "f", "f", "7", "f">>,
     <<"#", "1", "a", "2", "B", "3", "c">>}

InitColor ==
    /\ hex_code \in Colours
    /\ opacity \in 0..FullOpacity
    /\ packed = <<>>
    /\ AsmIdle /\ PipeIdle /\ OverlayIdle

\* a call of hex_to_ass (lines 169-176, 334-335)
Encode ==
    /\ packed = <<>>
    /\ packed' = hex_to_ass(hex_code, opacity)
    /\ UNCHANGED <<hex_code, opacity, asmVars, pipeVars, overlayVars>>

NextColor == Encode

SpecColor == InitColor /\ [][NextColor]_vars

-----------------------------------------------------------------------------
(* The overlay builder.  The filter string is a sequence of atoms: each     *)
(* character that the filter grammar gives a meaning (quote, backslash,     *)
(* colon, comma) is an atom of its own, and so is each character of the     *)
(* watermark text; a fixed fragment without such characters is one atom.    *)

\* lines 324-330
scale_filter(res) ==
    CASE res = "1080p" -> <<"scale=-2", ":", "1080", ",">>
      [] res = "720p (Recommended)" -> <<"scale=-2", ":", "720", ",">>
      [] res = "480p" -> <<"scale=-2", ":", "480", ",">>
      [] OTHER -> <<>>

\* lines 332-339, with the sidebar's defaults (lines 159-169)
style ==
    <<"FontName=Arial", ",", "Fontsize=24", ",", "PrimaryColour=">>
        \o hex_to_ass(<<"#", "F", "F", "F", "F", "F", "F">>, FullOpacity)
        \o <<",", "OutlineColour=">>
        \o hex_to_ass(<<"#", "0", "0", "0", "0", "0", "0">>, FullOpacity)
        \o <<",", "BackColour=">>
        \o hex_to_ass(<<"#", "0", "0", "0", "0", "0", "0">>, 0)
        \o <<",", "BorderStyle=1", ",", "Outline=2", ",", "Shadow=0", ",",
             "Alignment=2">>

\* str.replace(old, new) for a one-character old
RECURSIVE Replace(_, _, _)
Replace(s, old, new) ==
    IF s = <<>> THEN <<>>
    ELSE (IF Head(s) = old THEN new ELSE <<Head(s)>>) \o Replace(Tail(s), old, new)

\* line 344
safe_text(text) ==
    Replace(Replace(text, "'", <<"\\", "'">>), ":", <<"\\", ":">>)

\* line 345, with watermark_opacity 0.5 and watermark_size 24
drawtext_filter(text) ==
    <<",", "drawtext=text=", "'">> \o safe_text(text)
        \o <<"'", ":", "fontcolor=white@0.5", ":", "fontsize=24", ":",
             "x=w-tw-20", ":", "y=20">>

\* lines 341-346
BuildVf(res, text) ==
    scale_filter(res)
        \o <<"subtitles=cache/h_subs.srt", ":", "force_style=", "'">>
        \o style \o <<"'">>
        \o (IF text # <<>> THEN drawtext_filter(text) ELSE <<>>)

\* line 153
HackerslordStudios ==
    <<"H", "a", "c", "k", "e", "r", "s", "l", "o", "r", "d", " ",
      "S", "t", "u", "d", "i", "o", "s">>

WatermarkChars == {"a", "'", ":", "\\"}

InitOverlay ==
    /\ is_pro \in BOOLEAN
    /\ watermark_text \in IF is_pro
                          THEN SeqsUpTo(WatermarkChars, MaxWatermarkLen)
                          ELSE {HackerslordStudios}
    /\ export_res \in {"Original Resolution", "1080p", "720p (Recommended)", "480p"}
    /\ vf_string = <<>>
    /\ AsmIdle /\ PipeIdle /\ ColorIdle

\* lines 323-346: the filter string of a burn request
BuildOverlay ==
    /\ vf_string = <<>>
    /\ vf_string' = BuildVf(export_res, watermark_text)
    /\ UNCHANGED <<is_pro, watermark_text, export_res, asmVars, pipeVars, colorVars>>

NextOverlay == BuildOverlay

SpecOverlay == InitOverlay /\ [][NextOverlay]_vars

-----------------------------------------------------------------------------
(* Properties of the caption assembly, checked under SpecAssembly *)

\* the start or end of a written cue, read back in milliseconds
ToMs(stamp) ==
    stamp[1] * MsPerHour + stamp[2] * MsPerMinute + stamp[3] * MsPerSecond + stamp[4]

CueSpan(cue) == ToMs(cue.end) - ToMs(cue.start)

NullStamped(t) == t.timestamp[1] = None \/ t.timestamp[2] = None

WithoutNull(chunks_data) == SelectSeq(chunks_data, LAMBDA t : ~NullStamped(t))

WordMode == selected_lang = AKAN

\* C1 as stated: in word mode every emitted cue spans at most 3.0 seconds
\* from its own start.  (The code violates it: a cue opened by a token that
\* is itself longer than 3.0 seconds.)
C1_EveryCueWithinSpan ==
    WordMode => \A i \in DOMAIN srt_file : CueSpan(srt_file[i]) <= MaxCueSpan

\* C1 amended: in word mode every emitted cue spans at most 3.0 seconds from
\* its own start, unless its start and end are those of one input token whose
\* own duration exceeds 3.0 seconds.
C1_CueWithinSpanOrOneLongToken ==
    WordMode =>
        \A i \in DOMAIN srt_file :
            \/ CueSpan(srt_file[i]) <= MaxCueSpan
            \/ \E k \in DOMAIN result :
                  /\ ~NullStamped(result[k])
                  /\ result[k].timestamp[2] - result[k].timestamp[1] > MaxCueSpan
                  /\ result[k].timestamp[1] = ToMs(srt_file[i].start)
                  /\ result[k].timestamp[2] = ToMs(srt_file[i].end)

\* C1 witness: a finished pass that wrote a cue at exactly the 3.0 second
\* limit and a cue longer than it (one long token)
C1_Witness ==
    /\ WordMode /\ apc = "done"
    /\ \E i \in DOMAIN srt_file : CueSpan(srt_file[i]) = MaxCueSpan
    /\ \E i \in DOMAIN srt_file : CueSpan(srt_file[i]) > MaxCueSpan

\* C2: in word mode the cues and transcript lines written equal those written
\* for the same input with every null-timestamped token removed; with only
\* such tokens nothing is written, and no error occurs.
C2_NullTokensAreInvisible ==
    WordMode =>
        /\ apc # "unhandled"
        /\ apc = "done" =>
              LET ref == RunWords(WithoutNull(result), task, failed_calls)
              IN  /\ srt_file = ref.srt_file
                  /\ txt_file = ref.txt_file
                  /\ (WithoutNull(result) = <<>> => srt_file = <<>>)

\* C2 witness: a finished pass over an input with a null-timestamped token
\* between two timestamped ones, which wrote a cue
C2_Witness ==
    /\ WordMode /\ apc = "done" /\ srt_file # <<>>
    /\ \E i, j, k \in DOMAIN result :
          /\ i < j /\ j < k
          /\ ~NullStamped(result[i]) /\ NullStamped(result[j])
          /\ ~NullStamped(result[k])

\* C3: with the task translate, a cue whose translation call failed is
\* written with its untranslated text, the failure does not escape, and the
\* pass writes every cue with the index, start and end a working translator
\* gives.
C3_TranslationFallback ==
    (WordMode /\ task = TRANSLATE) =>
        /\ apc # "unhandled"
        /\ apc = "done" =>
              LET good == RunWords(result, TRANSLATE, {})
                  orig == RunWords(result, TRANSCRIBE, {})
              IN  /\ Len(srt_file) = Len(good.srt_file)
                  /\ Len(txt_file) = Len(srt_file)
                  /\ \A i \in DOMAIN srt_file :
                        /\ srt_file[i].index = good.srt_file[i].index
                        /\ srt_file[i].start = good.srt_file[i].start
                        /\ srt_file[i].end = good.srt_file[i].end
                        /\ srt_file[i].text =
                              IF i \in failed_calls
                              THEN orig.srt_file[i].text
                              ELSE good.srt_file[i].text
                        /\ txt_file[i] = srt_file[i].text

\* C3 witness: a finished translate pass in which a call failed for a cue that
\* is not the last one
C3_Witness ==
    /\ WordMode /\ task = TRANSLATE /\ apc = "done"
    /\ \E i \in failed_calls : i < Len(srt_file)

\* C8: the indices written are 1, 2, ..., K in the order of emission; a
\* skipped token consumes no index; in segment mode there is one cue per
\* segment, with the segment's start and end.
C8_IndicesContiguous ==
    /\ \A i \in DOMAIN srt_file : srt_file[i].index = i
    /\ Len(txt_file) = Len(srt_file)
    /\ (WordMode /\ apc = "done") =>
          /\ Len(srt_file) <= Len(WithoutNull(result))
          /\ (WithoutNull(result) # <<>> => Len(srt_file) >= 1)
    /\ (~WordMode /\ apc = "done") =>
          /\ Len(srt_file) = Len(result)
          /\ \A i \in DOMAIN result :
                /\ ToMs(srt_file[i].start) = result[i].start
                /\ ToMs(srt_file[i].end) = result[i].end

\* C8 witness: a finished word-mode pass that skipped a token and wrote at
\* least two cues
C8_Witness ==
    /\ WordMode /\ apc = "done" /\ Len(srt_file) >= 2
    /\ \E k \in DOMAIN result : NullStamped(result[k])

-----------------------------------------------------------------------------
(* Properties of the cache and the render phase, checked under SpecPipeline *)

SubtitleRequest == action_type \in {"srt", "txt", "burn"}

\* the assembly pipeline ran in this script run and came to its end
PipelineCompleted == SubtitleRequest /\ pc \in {"render", "panel"} /\ ~cache_hit

\* C4: the assembly pipeline is skipped only when both the subtitle file and
\* the transcript exist; with exactly one of them the request is a cache miss,
\* and a pipeline run that completes leaves both files, written by that run.
C4_PairedCacheCheck ==
    /\ cache_hit => (disk.srt.exists /\ disk.txt.exists)
    /\ (saw.srt # saw.txt) => ~cache_hit
    /\ pc \in {"transcribe", "open", "write"} => ~cache_hit
    /\ PipelineCompleted =>
          /\ disk.srt.exists /\ disk.txt.exists
          /\ disk.srt.by = run /\ disk.txt.by = run
          /\ disk.srt.content = disk.txt.content

\* C4 witness: a run that found the subtitle file without the transcript has
\* completed the pipeline
C4_Witness == PipelineCompleted /\ saw.srt /\ ~saw.txt

\* C5 as stated: a failure of the engine call is caught in either engine path,
\* and no unhandled error leaves the processing block.  (The code violates
\* it: the MMS call has no handler, the Whisper call one for RuntimeError
\* only.)
C5_EngineFailureIsCaught == asr = "failed" => pc # "unhandled"

\* C6 as stated: files left by a pipeline run that did not complete
\* successfully are not taken for a cache hit by a later request.  (The code
\* violates it: the existence of the two files is its only test.)
C6_CacheHitOnlyOnCompleteFiles ==
    cache_hit => (disk.srt.content = "complete" /\ disk.txt.content = "complete")

\* C7 as stated: the transcoder runs only for a burn request; a rendered video
\* the failed transcoder left behind is not offered as a result, and a burn
\* request that finds it re-invokes the transcoder.  (The code violates the
\* last two: the existence of the file is its only test.)
C7_PartialVideoIsNotCacheValid ==
    /\ (pc = "panel" /\ run \in ffmpeg_calls) => action_type = "burn"
    /\ "video" \in offered => disk.video.content = "complete"
    /\ (pc = "panel" /\ action_type = "burn" /\ disk.video.content = "partial")
          => run \in ffmpeg_calls

-----------------------------------------------------------------------------
(* Properties of the colour encoder, checked under SpecColor *)

UpperHexDigits ==
    <<"0", "1", "2", "3", "4", "5", "6", "7", "8", "9", "A", "B", "C", "D", "E", "F">>

\* the value of an upper-case hexadecimal digit; -1 for any other character
HexValue(c) ==
    IF \E i \in DOMAIN UpperHexDigits : UpperHexDigits[i] = c
    THEN (CHOOSE i \in DOMAIN UpperHexDigits : UpperHexDigits[i] = c) - 1
    ELSE -1

\* the alpha component read back from a packed colour
AlphaOf(p) == 16 * HexValue(p[3]) + HexValue(p[4])

RgbDigits(code) == IF Head(code) = "#" THEN Tail(code) ELSE code

\* "&H", two upper-case hex digits of alpha, then the blue, green and red digit
\* pairs of the input; alpha FF for opacity 0 and 00 for opacity 100
PackedLayout ==
    /\ Len(packed) = 10
    /\ SubSeq(packed, 1, 2) = <<"&", "H">>
    /\ HexValue(packed[3]) >= 0 /\ HexValue(packed[4]) >= 0
    /\ SubSeq(packed, 5, 6) = SubSeq(RgbDigits(hex_code), 5, 6)
    /\ SubSeq(packed, 7, 8) = SubSeq(RgbDigits(hex_code), 3, 4)
    /\ SubSeq(packed, 9, 10) = SubSeq(RgbDigits(hex_code), 1, 2)
    /\ (opacity = 0 => SubSeq(packed, 3, 4) = <<"F", "F">>)
    /\ (opacity = FullOpacity => SubSeq(packed, 3, 4) = <<"0", "0">>)

\* round((1 - opacity/100) * 255), a tie going to the even integer
RoundedAlpha(o) ==
    LET num == MaxAlpha * (FullOpacity - o)
        q == num \div FullOpacity
        r == num % FullOpacity
    IN  IF 2 * r < FullOpacity THEN q
        ELSE IF 2 * r > FullOpacity THEN q + 1
        ELSE IF q % 2 = 0 THEN q ELSE q + 1

\* C9 as stated: for every opacity in 0..100 the alpha component is
\* round((1 - opacity/100) * 255) as two upper-case hex digits, followed by
\* the blue, green and red pairs.  (The code truncates: opacity 2 gives F9,
\* not FA.)
C9_AlphaIsRounded ==
    packed # <<>> => (PackedLayout /\ AlphaOf(packed) = RoundedAlpha(opacity))

\* C9 amended: for every opacity in 0..100 the alpha component is
\* (1 - opacity/100) * 255 with its fraction dropped, as two upper-case hex
\* digits (FF for opacity 0, 00 for opacity 100), after "&H" and followed by
\* the blue, green and red pairs of the input.
C9_AlphaIsTruncated ==
    packed # <<>> =>
        /\ PackedLayout
        /\ FullOpacity * AlphaOf(packed) <= MaxAlpha * (FullOpacity - opacity)
        /\ MaxAlpha * (FullOpacity - opacity) < FullOpacity * (AlphaOf(packed) + 1)

\* C9 witness: a colour with a leading # encoded at opacity 50, where the
\* exact alpha 127.5 is written 7F
C9_Witness ==
    /\ packed # <<>> /\ opacity = 50 /\ Head(hex_code) = "#"
    /\ SubSeq(packed, 3, 4) = <<"7", "F">>

-----------------------------------------------------------------------------
(* Properties of the overlay builder, checked under SpecOverlay.  The       *)
(* filter grammar is the one the escaping of line 344 assumes: a backslash  *)
(* takes the next character literally, a quote opens or closes a quoted     *)
(* string, and outside quotes a comma ends a filter and a colon an option.  *)

\* the atom at j is taken literally: an odd number of backslashes runs up to it
IsEscaped(s, j) ==
    Cardinality({k \in 1..(j - 1) : \A m \in 1..k : s[j - m] = "\\"}) % 2 = 1

\* the quotes that open or close a quoted string
Quotes(s) == {j \in DOMAIN s : s[j] = "'" /\ ~IsEscaped(s, j)}

\* the atom at j lies outside every quoted string and is not escaped
TopLevel(s, j) ==
    ~IsEscaped(s, j) /\ Cardinality({q \in Quotes(s) : q < j}) % 2 = 0

\* the commas that end a filter, the colons that end an option
FilterEnds(s) == {j \in DOMAIN s : s[j] = "," /\ TopLevel(s, j)}
OptionEnds(s) == {j \in DOMAIN s : s[j] = ":" /\ TopLevel(s, j)}

\* what the grammar reads in a filter string: whether it ends inside a
\* quoted string, its filters, and the options of its last filter
Parsed(s) ==
    [quoted |-> Cardinality(Quotes(s)) % 2 = 1,
     filters |-> Cardinality(FilterEnds(s)) + 1,
     options |-> Cardinality({j \in OptionEnds(s) :
                                 \A f \in FilterEnds(s) : f < j}) + 1]

HasDrawtext(s) == \E i \in DOMAIN s : s[i] = "drawtext=text="

\* the watermark argument as written: what lies between the quotes the code
\* puts around it
WatermarkArgument(s) ==
    LET d == CHOOSE i \in DOMAIN s : s[i] = "drawtext=text="
    IN  SubSeq(s, d + 2, Len(s) - 9)

EscapedIn(arg) ==
    \A j \in DOMAIN arg :
        arg[j] \in {"'", ":"} => (j > 1 /\ arg[j - 1] = "\\")

\* C10 as stated: every quote and colon of the watermark text is written
\* escaped, no character of the text ends the quoted drawtext argument or
\* starts an option or a filter, the filter string is one well-formed
\* [scale,]subtitles=...[,drawtext=...] expression, and an empty text adds no
\* drawtext.  (The code violates it: a backslash in the text is not escaped
\* and unescapes the character after it.)
C10_WatermarkCannotInject ==
    vf_string # <<>> =>
        /\ HasDrawtext(vf_string) <=> (watermark_text # <<>>)
        /\ HasDrawtext(vf_string) => EscapedIn(WatermarkArgument(vf_string))
        /\ ~Parsed(vf_string).quoted
        /\ Parsed(vf_string).filters =
              1 + (IF scale_filter(export_res) # <<>> THEN 1 ELSE 0)
                + (IF watermark_text # <<>> THEN 1 ELSE 0)
        /\ Parsed(vf_string).options = IF watermark_text # <<>> THEN 5 ELSE 2

====
